---- MODULE Spec2Model ----
(***************************************************************************)
(* A model of safaribooks: the download run of downloader.py (chapters,    *)
(* CSS registry, assets, TOC, packaging), the chapter transformer of       *)
(* oreilly.py and the manifest builder of epub.py.                         *)
(*                                                                         *)
(* Text that the program inspects character by character (links, file      *)
(* names, titles) is a sequence of one-character strings.  Resource URLs   *)
(* that the run only compares for equality are TLA+ strings.               *)
(***************************************************************************)
EXTENDS Integers, Sequences, FiniteSets, TLC

(***************************************************************************)
(* Python str operations used by the program.                              *)
(***************************************************************************)

\* s.startswith(p)
StartsWith(s, p) ==
    /\ Len(p) <= Len(s)
    /\ SubSeq(s, 1, Len(p)) = p

\* the positions at which sub occurs in s
Occurrences(s, sub) ==
    {i \in 1..(Len(s) - Len(sub) + 1) : SubSeq(s, i, i + Len(sub) - 1) = sub}

\* sub in s
Contains(s, sub) == Occurrences(s, sub) # {}

\* s.find(sub), 1-based; 0 when sub does not occur
Find(s, sub) ==
    IF Occurrences(s, sub) = {} THEN 0
    ELSE CHOOSE i \in Occurrences(s, sub) : \A j \in Occurrences(s, sub) : i <= j

\* s[n:] with a 0-based n, as Python slices
Drop(s, n) == SubSeq(s, n + 1, Len(s))

\* s.replace(old, new): every non-overlapping occurrence, scanning from the left
RECURSIVE Replace(_, _, _)
Replace(s, old, new) ==
    IF Find(s, old) = 0 THEN s
    ELSE SubSeq(s, 1, Find(s, old) - 1) \o new
         \o Replace(Drop(s, Find(s, old) + Len(old) - 1), old, new)

\* SplitLast taking what follows the first separator: s.split(sep, 1)[-1]
SplitAfterFirst(s, sep) ==
    IF Find(s, sep) = 0 THEN s ELSE Drop(s, Find(s, sep) + Len(sep) - 1)

\* s.split(sep)[-1]: what follows the last separator found scanning from the left
RECURSIVE SplitLast(_, _)
SplitLast(s, sep) ==
    IF Find(s, sep) = 0 THEN s
    ELSE SplitLast(Drop(s, Find(s, sep) + Len(sep) - 1), sep)

\* s.split(sep): the list of pieces
RECURSIVE Split(_, _)
Split(s, sep) ==
    IF Find(s, sep) = 0 THEN <<s>>
    ELSE <<SubSeq(s, 1, Find(s, sep) - 1)>>
         \o Split(Drop(s, Find(s, sep) + Len(sep) - 1), sep)

\* s.rfind(sub), 1-based; 0 when sub does not occur
RFind(s, sub) ==
    IF Occurrences(s, sub) = {} THEN 0
    ELSE CHOOSE i \in Occurrences(s, sub) : \A j \in Occurrences(s, sub) : i >= j

UpperCase == <<"A", "B", "C", "D", "E", "F", "G", "H", "I", "J", "K", "L", "M",
               "N", "O", "P", "Q", "R", "S", "T", "U", "V", "W", "X", "Y", "Z">>

LowerCase == <<"a", "b", "c", "d", "e", "f", "g", "h", "i", "j", "k", "l", "m",
               "n", "o", "p", "q", "r", "s", "t", "u", "v", "w", "x", "y", "z">>

Digits == {"0", "1", "2", "3", "4", "5", "6", "7", "8", "9"}

Range(f) == {f[i] : i \in DOMAIN f}

LowerChar(c) ==
    IF c \in Range(UpperCase)
    THEN LowerCase[CHOOSE i \in DOMAIN UpperCase : UpperCase[i] = c]
    ELSE c

\* s.lower()
Lower(s) == [i \in DOMAIN s |-> LowerChar(s[i])]

(***************************************************************************)
(* Character-sequence literals.                                            *)
(***************************************************************************)
Slash == <<"/">>
Dot == <<".">>
StrCover == <<"c", "o", "v", "e", "r">>
StrImages == <<"i", "m", "a", "g", "e", "s">>
StrGraphics == <<"g", "r", "a", "p", "h", "i", "c", "s">>
StrMailto == <<"m", "a", "i", "l", "t", "o">>
StrImagesDir == <<"I", "m", "a", "g", "e", "s", "/">>
StrDotHtml == <<".", "h", "t", "m", "l">>
StrDotXhtml == <<".", "x", "h", "t", "m", "l">>

\* the extensions listed by is_image_link
ImageExtensions ==
    { <<"j", "p", "g">>, <<"j", "p", "e", "g">>, <<"p", "n", "g">>, <<"g", "i", "f">> }

(***************************************************************************)
(* urllib.parse.urlparse(url).netloc and pathlib.Path(url).suffix, as far  *)
(* as the link rewriter depends on them.                                   *)
(***************************************************************************)

\* urllib.parse.scheme_chars
SchemeChars == Range(LowerCase) \cup Range(UpperCase) \cup Digits \cup {"+", "-", "."}

\* urlsplit: a leading "scheme:" is cut off when every character before the
\* first colon is a scheme character and the first one is a letter
UrlAfterScheme(url) ==
    LET c == Find(url, <<":">>)
    IN  IF /\ c > 1
           /\ url[1] \in Range(LowerCase) \cup Range(UpperCase)
           /\ \A k \in 1..(c - 1) : url[k] \in SchemeChars
        THEN Drop(url, c)
        ELSE url

\* urlsplit: the network location is what follows a leading "//" up to the
\* first of "/", "?" and "#"
Netloc(url) ==
    LET rest == UrlAfterScheme(url)
        ends == {k \in 3..Len(rest) : rest[k] \in {"/", "?", "#"}}
        stop == IF ends = {} THEN Len(rest) + 1
                ELSE CHOOSE k \in ends : \A m \in ends : k <= m
    IN  IF StartsWith(rest, <<"/", "/">>) THEN SubSeq(rest, 3, stop - 1) ELSE <<>>

\* url_is_absolute asking for a scheme as well
url_is_absolute_with_scheme(url) == UrlAfterScheme(url) # url /\ Netloc(url) # <<>>

\* OreillyParser.url_is_absolute
url_is_absolute(url) == Netloc(url) # <<>>

\* PurePosixPath(url).name: the last component that is neither empty nor "."
PathName(url) ==
    LET parts == SelectSeq(Split(url, Slash), LAMBDA p : p # <<>> /\ p # Dot)
    IN  IF parts = <<>> THEN <<>> ELSE parts[Len(parts)]

\* PurePosixPath(url).suffix: from the last dot of the name, unless that dot
\* is the first or the last character of the name
PathSuffix(url) ==
    LET name == PathName(url)
        d == RFind(name, Dot)
    IN  IF d > 1 /\ d < Len(name) THEN Drop(name, d - 1) ELSE <<>>

\* is_image_link without lower()
is_image_link_case_sensitive(url) == Drop(PathSuffix(url), 1) \in ImageExtensions

\* OreillyParser.is_image_link
is_image_link(url) == Lower(Drop(PathSuffix(url), 1)) \in ImageExtensions

\* the test of link_replace that sends a relative link to Images/
IsImageOrCover(link) ==
    \/ \E x \in {StrCover, StrImages, StrGraphics} : Contains(link, x)
    \/ is_image_link(link)

\* s.endswith(p)
EndsWith(s, p) ==
    /\ Len(p) <= Len(s)
    /\ SubSeq(s, Len(s) - Len(p) + 1, Len(s)) = p

\* s with the suffix old replaced by new, s itself when it does not end in old
ReplaceSuffix(s, old, new) ==
    IF EndsWith(s, old) THEN SubSeq(s, 1, Len(s) - Len(old)) \o new ELSE s

\* RewriteRelative rewriting ".html" only at the end of the link
RewriteRelativeSuffixOnly(link) ==
    IF IsImageOrCover(link)
    THEN StrImagesDir \o SplitLast(link, Slash)
    ELSE ReplaceSuffix(link, StrDotHtml, StrDotXhtml)

\* what link_replace returns for a relative link
RewriteRelative(link) ==
    IF IsImageOrCover(link)
    THEN StrImagesDir \o SplitLast(link, Slash)
    ELSE Replace(link, StrDotHtml, StrDotXhtml)

\* OreillyParser.link_replace
RECURSIVE link_replace(_, _)
link_replace(link, book_id) ==
    IF link # <<>> /\ ~StartsWith(link, StrMailto)
    THEN IF ~url_is_absolute(link)
         THEN RewriteRelative(link)
         ELSE IF Contains(link, book_id)
              THEN link_replace(SplitLast(link, book_id), book_id)
              ELSE link
    ELSE link

\* how many times link_replace calls itself for link
RECURSIVE Recursions(_, _)
Recursions(link, book_id) ==
    IF link # <<>> /\ ~StartsWith(link, StrMailto)
            /\ url_is_absolute(link) /\ Contains(link, book_id)
    THEN 1 + Recursions(SplitLast(link, book_id), book_id)
    ELSE 0

(***************************************************************************)
(* The state of the program.                                               *)
(***************************************************************************)
VARIABLES
    api,            \* the pages of the chapter-listing API: a sequence of "results" lists
    run,            \* how many runs over the book directory have been started
    pc,             \* the statement of Downloader.download the current run is at
    book_chapters,  \* book_chapters of Downloader.download
    i,              \* the index of the loop the run is in (chapters, self.css, self.images)
    css,            \* self.css: the CSS registry of the run
    images,         \* self.images
    oebps,          \* OEBPS/*.xhtml on disk: file name -> the page written
    styles,         \* OEBPS/Styles on disk: NN of StyleNN.css -> the URL whose content it holds
    imgfiles,       \* OEBPS/Images on disk: file name -> the URL whose content it holds
    fetched,        \* the requests of this run, in order
    attempted,      \* the URLs _thread_download_css/_images were called with, in order
    errors,         \* the requests of this run that logger.error reported
    exited,         \* "" or the reason the run was ended by logger.exit
    manifest,       \* the NN of the StyleNN.css items of content.opf, in order
    chapter_items,  \* the chapter items of the manifest of content.opf, in order
    spine,          \* the idrefs of the itemrefs of the spine of content.opf, in order
    guide,          \* the href of the cover reference of the guide of content.opf
    epub,           \* TRUE once create_epub has run in this run
    faults,         \* the requests over all runs that were not answered well
    parsed_html,    \* the last call of parse_html in this run and what it returned
    link,           \* link rewriter: the argument of link_replace
    newLink,        \* link rewriter: the value link_replace returned
    lpc,            \* link rewriter: "call" before, "return" after the call
    toc,            \* table of contents: the list of nodes the TOC API answered
    table,          \* table of contents: what parse_toc returned for toc
    tpc,            \* table of contents: "call" before, "return" after the call
    response_json,  \* book info: what the book API answered
    book_info,      \* book info: the mapping get_book_info returned
    ipc,            \* book info: "call" before, "return" or "exited" after the call
    document,       \* cover detection: the <img> elements of the tree, in document order
    found,          \* cover detection: what get_cover returned for document
    cpc             \* cover detection: "call" before, "return" after the call

runVars == <<api, run, pc, book_chapters, i, css, images, oebps, styles, imgfiles,
             fetched, attempted, errors, exited, manifest, epub, faults, parsed_html,
             chapter_items, spine, guide>>

linkVars == <<link, newLink, lpc>>

tocVars == <<toc, table, tpc>>

infoVars == <<response_json, book_info, ipc>>

opfVars == <<chapter_items, spine, guide>>

coverVars == <<document, found, cpc>>

vars == <<api, run, pc, book_chapters, i, css, images, oebps, styles, imgfiles,
          fetched, attempted, errors, exited, manifest, epub, faults, parsed_html,
          chapter_items, spine, guide, link, newLink, lpc, toc, table, tpc,
          response_json, book_info, ipc, document, found, cpc>>

(***************************************************************************)
(* Bounds of the model.                                                    *)
(***************************************************************************)
MaxRuns == 2        \* runs over one book directory
MaxChapters == 2    \* chapters of the book that is downloaded
MaxPages == 2       \* pages of the chapter-listing API
MaxPerPage == 2     \* chapters on one page of the chapter-listing API
MaxDirs == 1        \* directory segments of a link
MaxFaults == 2      \* requests, over all runs, that are not answered well
MaxTocNodes == 4    \* nodes of the table of contents, at all levels together
MaxTocDepth == 2    \* the largest "depth" field of a node
MaxImgs == 2        \* <img> elements of the tree get_cover looks into

\* TableOfContents(navmap, children, depth)
TableOfContents(navmap, children, depth) ==
    [navmap |-> navmap, children |-> children, depth |-> depth]

\* an empty dict
EmptyDict == [x \in {} |-> <<>>]

\* the book-info variables while get_book_info is not looked at
InfoIdle ==
    /\ response_json = [kind |-> "none", fields |-> EmptyDict]
    /\ book_info = EmptyDict
    /\ ipc = "idle"

\* the cover-detection variables while get_cover is not looked at
CoverIdle ==
    /\ document = <<>>
    /\ found = 0
    /\ cpc = "idle"

\* the table-of-contents variables while no table of contents is parsed
TocIdle ==
    /\ toc = <<>>
    /\ table = TableOfContents(<<>>, 0, 0)
    /\ tpc = "idle"

(***************************************************************************)
(* The chapter-listing API and Downloader.get_book_chapters.               *)
(***************************************************************************)

\* one entry of "results": the fields of a chapter the program reads
\* and, of the fragment served at its "content" URL, the href of each
\* <link rel="stylesheet"> and the number of <style> elements
Chapter(filename, title, content, base, sheets, site_styles, imgs, links, inline) ==
    [filename |-> filename, title |-> title, content |-> content,
     asset_base_url |-> base, stylesheets |-> sheets,
     site_styles |-> site_styles, images |-> imgs, links |-> links, inline |-> inline]

\* the test of get_book_chapters: "cover" in c["filename"] or "cover" in c["title"]
IsCoverChapter(c) == Contains(c.filename, StrCover) \/ Contains(c.title, StrCover)

IsNotCoverChapter(c) == ~IsCoverChapter(c)

\* covers + rest of one page
PartitionPage(results) ==
    SelectSeq(results, IsCoverChapter) \o SelectSeq(results, IsNotCoverChapter)

\* Downloader.get_book_chapters(page), page counted from 1; "next" is set on
\* every page but the last
RECURSIVE get_book_chapters(_, _)
get_book_chapters(pages, page) ==
    PartitionPage(pages[page])
    \o (IF page < Len(pages) THEN get_book_chapters(pages, page + 1) ELSE <<>>)

\* get_book_chapters ends the run when a page has no results
HasEmptyPage(pages) == \E p \in DOMAIN pages : pages[p] = <<>>

\* all sequences over S of a length from lo to hi
SeqsOf(S, lo, hi) == UNION {[1..n -> S] : n \in lo..hi}

(***************************************************************************)
(* URLs.                                                                   *)
(***************************************************************************)
Https == <<"h", "t", "t", "p", "s", ":">>

\* str(self.book_id)
BookId == <<"4", "2">>

\* book_info["web_url"]
BaseUrl == Https \o <<"/", "/", "h", "/", "b", "/">>

\* urls.SAFARI_BASE_URL
SafariBaseUrl == Https \o <<"/", "/", "h">>

\* the asset base of a chapter served by the v2 API
V2AssetBase == SafariBaseUrl \o <<"/", "v", "2", "/">> \o BookId \o <<"/", "f">>

\* urllib.parse.urljoin(base, ref) for the shapes of ref the program passes:
\* a protocol-relative ref takes the scheme of base, a ref with a host is
\* kept, a relative path replaces what follows the last "/" of base
urljoin(base, ref) ==
    IF StartsWith(ref, <<"/", "/">>)
    THEN SubSeq(base, 1, Find(base, <<":">>)) \o ref
    ELSE IF url_is_absolute(ref)
         THEN ref
         ELSE SubSeq(base, 1, RFind(base, Slash)) \o ref

(***************************************************************************)
(* The CSS registry and OreillyParser.parse_html.                          *)
(***************************************************************************)

\* css_list.index(url), counted from 0 as Python does
Index(css_list, url) ==
    (CHOOSE k \in DOMAIN css_list :
        /\ css_list[k] = url
        /\ \A m \in DOMAIN css_list : css_list[m] = url => k <= m) - 1

\* Register with the new URL put in front of the list
RegisterInFront(css_list, url) ==
    IF url \in Range(css_list) THEN css_list ELSE <<url>> \o css_list

\* Register without the membership test
RegisterAlways(css_list, url) == Append(css_list, url)

\* if url not in css_list: css_list.append(url)
Register(css_list, url) ==
    IF url \in Range(css_list) THEN css_list ELSE Append(css_list, url)

\* the <link href="Styles/Style{NN}.css"> appended to page_css for url; url
\* itself is not part of the text, it records what the link was made for
StyleLink(css_list, url) == [kind |-> "link", style |-> Index(css_list, url), url |-> url]

\* a <style> element of the fragment, serialized into page_css
InlineStyle == [kind |-> "style", style |-> -1, url |-> <<>>]

\* the <style> of the cover layout of make_cover
CoverStyle == [kind |-> "cover", style |-> -1, url |-> <<>>]

\* the two loops of parse_html over stylesheet URLs: register the URL if it
\* is new, then append its link to page_css
RECURSIVE AddStylesheets(_, _, _)
AddStylesheets(css_list, page_css, urls) ==
    IF urls = <<>> THEN [css_list |-> css_list, page_css |-> page_css]
    ELSE LET reg == Register(css_list, Head(urls))
         IN  AddStylesheets(reg, Append(page_css, StyleLink(reg, Head(urls))), Tail(urls))

\* css_url of a <link rel="stylesheet"> element
ResolveHref(base_url, href) ==
    IF StartsWith(href, <<"/", "/">>) THEN urljoin(Https, href) ELSE urljoin(base_url, href)

\* the container of the fragment, the links in it rewritten
Content == [id |-> "sbo-rt-content", img |-> <<>>]

\* the <div id="Cover"><img src=...></div> make_cover builds
CoverLayout(src) == [id |-> "Cover", img |-> src]

\* no xhtml: the call did not get to html.tostring
NoContent == [id |-> "", img |-> <<>>]

\* OreillyParser.make_cover: the cover layout replaces page_css when
\* get_cover finds a cover element
make_cover(page_css, root) ==
    IF root.cover
    THEN [cover_url |-> root.cover_src, page_css |-> <<CoverStyle>>,
          book_content |-> CoverLayout(root.cover_src)]
    ELSE [cover_url |-> <<>>, page_css |-> page_css, book_content |-> Content]

\* CoverIfFirstPage calling make_cover on every page
CoverOnEveryPage(is_first_page, page_css, root) == make_cover(page_css, root)

\* if is_first_page: cover_url, page_css, book_content = self.make_cover(...)
CoverIfFirstPage(is_first_page, page_css, root) ==
    IF is_first_page THEN make_cover(page_css, root)
    ELSE [cover_url |-> <<>>, page_css |-> page_css, book_content |-> Content]

\* what parse_html has to return when logger.exit ended it
Exited(reason, css_list) ==
    [exit |-> reason, css_list |-> css_list, page_css |-> <<>>, cover_url |-> <<>>,
     xhtml |-> NoContent]

\* parse_html with the <style> elements put into page_css before the links
parse_html_styles_first(root, is_first_page, chapter_stylesheets, css_list, base_url, rnd) ==
    LET declared == AddStylesheets(css_list, <<>>, chapter_stylesheets)
        linked == AddStylesheets(declared.css_list, declared.page_css,
                                 [k \in DOMAIN root.links |-> ResolveHref(base_url, root.links[k])])
        page_css == [k \in 1..root.inline |-> InlineStyle] \o linked.page_css
        covered == CoverIfFirstPage(is_first_page, page_css, root)
    IN  IF root.marker /\ rnd THEN Exited("api_error", css_list)
        ELSE IF ~root.container THEN Exited("no_content", css_list)
        ELSE IF ~root.serializable THEN Exited("parse_error", linked.css_list)
        ELSE [exit |-> "", css_list |-> linked.css_list, page_css |-> covered.page_css,
              cover_url |-> covered.cover_url, xhtml |-> covered.book_content]

\* OreillyParser.parse_html.  root is the parsed fragment, rnd the outcome of
\* random() > 0.8.  exit names the logger.exit that ended the call, or is "".
\* cover_url is <<>> for None.
parse_html(root, is_first_page, chapter_stylesheets, css_list, base_url, rnd) ==
    LET declared == AddStylesheets(css_list, <<>>, chapter_stylesheets)
        linked == AddStylesheets(declared.css_list, declared.page_css,
                                 [k \in DOMAIN root.links |-> ResolveHref(base_url, root.links[k])])
        page_css == linked.page_css \o [k \in 1..root.inline |-> InlineStyle]
        covered == CoverIfFirstPage(is_first_page, page_css, root)
    IN  IF root.marker /\ rnd THEN Exited("api_error", css_list)
        ELSE IF ~root.container THEN Exited("no_content", css_list)
        ELSE IF ~root.serializable THEN Exited("parse_error", linked.css_list)
        ELSE [exit |-> "", css_list |-> linked.css_list, page_css |-> covered.page_css,
              cover_url |-> covered.cover_url, xhtml |-> covered.book_content]

(***************************************************************************)
(* The books and the responses the model draws from.                       *)
(***************************************************************************)
U1 == Https \o <<"/", "/", "h", "/", "u", "1">>
U2 == Https \o <<"/", "/", "h", "/", "u", "2">>
AssetBase == Https \o <<"/", "/", "h", "/", "a", "/">>
StrV2 == <<"v", "2">>
StrDefaultCover == <<"d", "e", "f", "a", "u", "l", "t", "_", "c", "o", "v", "e", "r">>

\* c1.html: one declared stylesheet, one image, served by the v1 API
ChapterOne ==
    Chapter(<<"c", "1">> \o StrDotHtml, <<"A">>, <<"v", "1", "/", "c", "1">>, AssetBase,
            <<U1>>, <<>>, <<<<"f">>>>, <<>>, 0)

\* c2.html: served by the v2 API; its fragment links U1 protocol-relative and
\* has a <style>; its image has the basename of the image of c1.html
ChapterTwo ==
    Chapter(<<"c", "2">> \o StrDotHtml, <<"B">>, <<"v", "2", "/", "c", "2">>, AssetBase,
            <<U2>>, <<>>, <<<<"f">>>>, <<<<"/", "/", "h", "/", "u", "1">>>>, 1)

\* cover.html: U2 declared twice, a relative <link>, the image of c1.html again
ChapterCover ==
    Chapter(StrCover \o StrDotHtml, <<"C">>, <<"v", "1", "/", "c", "0">>, AssetBase,
            <<U2>>, <<U2>>, <<<<"f">>, <<"g">>>>, <<<<"u", "3">>>>, 0)

RunChapters == {ChapterOne, ChapterTwo, ChapterCover}

\* the chapter lists of the books a run downloads: no chapter twice
RunBooks ==
    {book \in SeqsOf(RunChapters, 1, MaxChapters) :
        \A x, y \in DOMAIN book : book[x] = book[y] => x = y}

\* the chapter create_default_cover puts in front of book_chapters
DefaultCoverChapter ==
    Chapter(StrDefaultCover \o StrDotXhtml, <<"C", "o", "v", "e", "r">>, <<>>, <<>>,
            <<>>, <<>>, <<>>, <<>>, 0)

\* the name of the file a chapter is written to
PageName(filename) == Replace(filename, StrDotHtml, StrDotXhtml)

\* what requests_provider and html.fromstring give get_html for a chapter
Responses == {"none", "status", "unparseable", "ok"}

\* the parsed fragment of a chapter: the rate-limit marker, the content
\* container, a cover element, and whether lxml can serialize the content
Root(chapter, marker, container, cover, serializable) ==
    [marker |-> marker, container |-> container, cover |-> cover,
     cover_src |-> StrImagesDir \o StrCover, serializable |-> serializable,
     links |-> chapter.links, inline |-> chapter.inline]

Roots(chapter) ==
    { Root(chapter, m, c, v, z) : m \in BOOLEAN, c \in BOOLEAN, v \in BOOLEAN, z \in BOOLEAN }

\* the fragment create_default_cover builds around the cover image
DefaultCoverRoot(cover) ==
    [marker |-> FALSE, container |-> TRUE, cover |-> cover # <<>>,
     cover_src |-> StrImagesDir \o cover, serializable |-> TRUE, links |-> <<>>, inline |-> 0]

\* one request of the run and what came of it: "ok", or what was wrong with
\* the response or with the fragment in it
Request(kind, url, result) == [kind |-> kind, url |-> url, result |-> result]

\* a fragment parse_html cannot go through with: the marker is in it, the
\* container is not, or it cannot be serialized
Flawed(root) == root.marker \/ ~root.container \/ ~root.serializable

\* the network answers a request: badly only MaxFaults times
Answer(bad) ==
    IF bad THEN faults < MaxFaults /\ faults' = faults + 1 ELSE UNCHANGED faults

(***************************************************************************)
(* Downloader.download, one action per statement or loop iteration.        *)
(***************************************************************************)

\* a call of parse_html as the run remembers it: the page it was made for,
\* the flag passed, what the fragment had in it, and what came back
Call(filename, is_first_page, root, result) ==
    [filename |-> filename, is_first_page |-> is_first_page, marker |-> root.marker,
     cover |-> root.cover, result |-> result]

\* before the first call of parse_html in a run
NoCall ==
    [filename |-> <<>>, is_first_page |-> FALSE, marker |-> FALSE, cover |-> FALSE,
     result |-> Exited("", <<>>)]

\* first_page true for every chapter
first_page_always(index) == TRUE

\* first_page = i == 0, i counting the chapters of the list from 1 here
first_page(index) == index = 1

\* Logger.exit: the diagnostic is shown and the process ends
Exit(reason) ==
    /\ pc' = "exited"
    /\ exited' = reason

\* isfile that never finds the file
isfileNever(directory, name) == FALSE

\* os.path.isfile(os.path.join(directory, name))
isfile(directory, name) == name \in DOMAIN directory

\* get_html_exits without the test of the status code
get_html_exits_on_none(response) == response \in {"none", "unparseable"}

\* get_html ends the run unless the response is there and has status 200
\* and html.fromstring parses it
get_html_exits(response) == response \in {"none", "status", "unparseable"}

\* AfterCover with collect_images called before collect_css
AfterCoverImagesFirst(css_list, image_list) ==
    IF image_list # <<>> THEN "collect_images"
    ELSE IF css_list # <<>> THEN "collect_css" ELSE "download_toc"

\* the statement after the chapter loop's successor, create_default_cover
AfterCover(css_list, image_list) ==
    IF css_list # <<>> THEN "collect_css"
    ELSE IF image_list # <<>> THEN "collect_images" ELSE "download_toc"

\* the statement after collect_css
AfterCss(image_list) == IF image_list # <<>> THEN "collect_images" ELSE "download_toc"

\* the image URLs download_chapters appends to self.images for a chapter
ChapterImages(chapter) ==
    [k \in DOMAIN chapter.images |->
        IF Contains(chapter.content, StrV2)
        THEN V2AssetBase \o Slash \o chapter.images[k]
        ELSE urljoin(chapter.asset_base_url, chapter.images[k])]

\* book_info = self.get_book_info()
GetBookInfo ==
    /\ pc = "get_book_info"
    /\ \E ok \in BOOLEAN :
        IF ok
        THEN /\ fetched' = Append(fetched, Request("book_info", <<>>, "ok"))
             /\ pc' = "get_book_chapters"
             /\ Answer(FALSE)
             /\ UNCHANGED exited
        ELSE /\ fetched' = Append(fetched, Request("book_info", <<>>, "none"))
             /\ Answer(TRUE)
             /\ Exit("book_info")
    /\ UNCHANGED <<api, run, book_chapters, i, css, images, oebps, styles, imgfiles,
                   attempted, errors, manifest, epub, parsed_html>>
    /\ UNCHANGED <<linkVars, tocVars, infoVars, opfVars, coverVars>>

\* book_chapters = self.get_book_chapters(): the pages are requested in
\* turn; broken = 0 when every request is answered, else the page whose
\* request is not
GetBookChapters ==
    /\ pc = "get_book_chapters"
    /\ \E broken \in 0..Len(api) :
        LET empty == {p \in DOMAIN api : api[p] = <<>>}
            stops == empty \cup (IF broken = 0 THEN {} ELSE {broken})
            last == IF stops = {} THEN Len(api)
                    ELSE CHOOSE p \in stops : \A q \in stops : p <= q
        IN  /\ Answer(broken # 0)
            /\ fetched' = fetched \o
                    [p \in 1..last |-> Request("chapters", <<>>,
                                               IF p \in stops THEN "none" ELSE "ok")]
            /\ IF stops = {}
               THEN /\ book_chapters' = get_book_chapters(api, 1)
                    /\ pc' = "download_chapters"
                    /\ i' = 1
                    /\ UNCHANGED exited
               ELSE /\ Exit("book_chapters")
                    /\ UNCHANGED <<book_chapters, i>>
    /\ UNCHANGED <<api, run, css, images, oebps, styles, imgfiles, attempted, errors,
                   manifest, epub, parsed_html>>
    /\ UNCHANGED <<linkVars, tocVars, infoVars, opfVars, coverVars>>

\* book_cover returning the cover the transformer found
book_cover_of_page(cover_url) == cover_url

\* what download_chapters returns: book_cover = None ... return book_cover,
\* whatever cover_url parse_html returned; <<>> is None
book_cover(cover_url) == <<>>

\* save_page_html: the page written, its css and its xhtml
save_page_html(parsed) == [page_css |-> parsed.page_css, xhtml |-> parsed.xhtml]

\* one iteration of the loop of download_chapters
DownloadChapter ==
    /\ pc = "download_chapters"
    /\ LET chapter == book_chapters[i]
           chapter_stylesheets == chapter.stylesheets \o chapter.site_styles
           file == PageName(chapter.filename)
           after(cover_url, css_list) ==
               IF i < Len(book_chapters) THEN "download_chapters"
               ELSE IF book_cover(cover_url) = <<>> THEN "create_default_cover"
               ELSE AfterCover(css_list, images')
           loop(statement) ==
               IF statement \in {"download_chapters", "create_default_cover"} THEN i + 1 ELSE 1
       IN  /\ images' = images \o ChapterImages(chapter)
           /\ IF isfile(oebps, file)
              THEN /\ pc' = after(<<>>, css)
                   /\ i' = loop(pc')
                   /\ UNCHANGED <<css, oebps, fetched, exited, faults, parsed_html>>
              ELSE \E response \in Responses :
                    IF get_html_exits(response)
                    THEN /\ fetched' = Append(fetched,
                                              Request("chapter", chapter.content, response))
                         /\ Answer(TRUE)
                         /\ Exit("get_html")
                         /\ UNCHANGED <<i, css, oebps, parsed_html>>
                    ELSE \E root \in Roots(chapter), rnd \in BOOLEAN :
                          LET parsed == parse_html(root, first_page(i), chapter_stylesheets,
                                                   css, BaseUrl, rnd)
                              result == IF response # "ok" THEN response
                                        ELSE IF parsed.exit # "" THEN parsed.exit
                                        ELSE "ok"
                          IN  /\ Answer(response # "ok" \/ Flawed(root))
                              /\ parsed_html' = Call(chapter.filename, first_page(i), root, parsed)
                              /\ fetched' = Append(fetched,
                                                   Request("chapter", chapter.content, result))
                              /\ css' = parsed.css_list
                              /\ IF parsed.exit # ""
                                 THEN /\ Exit(parsed.exit)
                                      /\ UNCHANGED <<i, oebps>>
                                 ELSE /\ oebps' = (file :> save_page_html(parsed)) @@ oebps
                                      /\ pc' = after(parsed.cover_url, parsed.css_list)
                                      /\ i' = loop(pc')
                                      /\ UNCHANGED exited
    /\ UNCHANGED <<api, run, book_chapters, styles, imgfiles, attempted, errors,
                   manifest, epub>>
    /\ UNCHANGED <<linkVars, tocVars, infoVars, opfVars, coverVars>>

\* book_info["cover"]
CoverUrl == Https \o <<"/", "/", "h", "/", "c", "v">>

\* the file name get_default_cover gives the cover image
DefaultCoverImage == StrDefaultCover \o <<".", "j", "p", "e", "g">>

\* cover, book_chapters = self.create_default_cover(...), run on every pass
\* because download_chapters returns None.  answer is what get_default_cover
\* meets: no "cover" in book_info, a request that fails, or the image.
CreateDefaultCover ==
    /\ pc = "create_default_cover"
    /\ \E answer \in {"absent", "none", "ok"} :
        LET cover == IF answer = "ok" THEN DefaultCoverImage ELSE <<>>
            parsed == parse_html(DefaultCoverRoot(cover), TRUE, <<>>, css, BaseUrl, FALSE)
        IN  /\ Answer(answer = "none")
            /\ parsed_html' = Call(DefaultCoverChapter.filename, TRUE,
                                   DefaultCoverRoot(cover), parsed)
            /\ fetched' = IF answer = "absent" THEN fetched
                          ELSE Append(fetched, Request("cover", CoverUrl, answer))
            /\ errors' = IF answer = "none"
                         THEN Append(errors, Request("cover", CoverUrl, answer))
                         ELSE errors
            /\ imgfiles' = IF answer = "ok" THEN (DefaultCoverImage :> CoverUrl) @@ imgfiles
                           ELSE imgfiles
            /\ css' = parsed.css_list
            /\ book_chapters' = <<DefaultCoverChapter>> \o book_chapters
            /\ oebps' = (PageName(DefaultCoverChapter.filename) :> save_page_html(parsed))
                            @@ oebps
            /\ pc' = AfterCover(css', images)
            /\ i' = 1
    /\ UNCHANGED <<api, run, images, styles, attempted, exited, manifest, epub>>
    /\ UNCHANGED <<linkVars, tocVars, infoVars, opfVars, coverVars>>

\* _thread_download_css when the request for css[i] fails: the error is
\* logged and the call returns
CssFetchFailed ==
    /\ fetched' = Append(fetched, Request("css", css[i], "none"))
    /\ errors' = Append(errors, Request("css", css[i], "none"))
    /\ Answer(TRUE)
    /\ IF i = Len(css) THEN pc' = AfterCss(images) /\ i' = 1
       ELSE pc' = pc /\ i' = i + 1
    /\ UNCHANGED <<styles, exited>>

\* one iteration of the loop of collect_css: _thread_download_css(css_url)
ThreadDownloadCss ==
    /\ pc = "collect_css"
    /\ LET url == css[i]
           css_file == Index(css, url)
       IN  /\ attempted' = Append(attempted, url)
           /\ IF isfile(styles, css_file)
              THEN /\ IF i = Len(css) THEN pc' = AfterCss(images) /\ i' = 1
                      ELSE pc' = pc /\ i' = i + 1
                   /\ UNCHANGED <<styles, fetched, errors, exited, faults>>
              ELSE \/ /\ fetched' = Append(fetched, Request("css", url, "ok"))
                      /\ styles' = (css_file :> url) @@ styles
                      /\ IF i = Len(css) THEN pc' = AfterCss(images) /\ i' = 1
                         ELSE pc' = pc /\ i' = i + 1
                      /\ UNCHANGED <<errors, exited, faults>>
                   \/ CssFetchFailed
    /\ UNCHANGED <<api, run, book_chapters, css, images, oebps, imgfiles, manifest, epub,
                   parsed_html>>
    /\ UNCHANGED <<linkVars, tocVars, infoVars, opfVars, coverVars>>

\* ImageFetchFailed ending the run instead of returning
ImageFetchFailedExits ==
    /\ fetched' = Append(fetched, Request("image", urljoin(SafariBaseUrl, images[i]), "none"))
    /\ errors' = Append(errors, Request("image", images[i], "none"))
    /\ Answer(TRUE)
    /\ Exit("image")
    /\ UNCHANGED <<imgfiles, i>>

\* _thread_download_images when the request for images[i] fails: the error
\* is logged and the call returns
ImageFetchFailed ==
    /\ fetched' = Append(fetched, Request("image", urljoin(SafariBaseUrl, images[i]), "none"))
    /\ errors' = Append(errors, Request("image", images[i], "none"))
    /\ Answer(TRUE)
    /\ IF i = Len(images) THEN pc' = "download_toc" /\ i' = 1
       ELSE pc' = pc /\ i' = i + 1
    /\ UNCHANGED <<imgfiles, exited>>

\* one iteration of the loop of collect_images: _thread_download_images(image_url)
ThreadDownloadImages ==
    /\ pc = "collect_images"
    /\ LET url == images[i]
           image_name == SplitLast(url, Slash)
       IN  /\ attempted' = Append(attempted, url)
           /\ IF isfile(imgfiles, image_name)
              THEN /\ IF i = Len(images) THEN pc' = "download_toc" /\ i' = 1
                      ELSE pc' = pc /\ i' = i + 1
                   /\ UNCHANGED <<imgfiles, fetched, errors, exited, faults>>
              ELSE \/ /\ fetched' = Append(fetched,
                                           Request("image", urljoin(SafariBaseUrl, url), "ok"))
                      /\ imgfiles' = (image_name :> url) @@ imgfiles
                      /\ IF i = Len(images) THEN pc' = "download_toc" /\ i' = 1
                         ELSE pc' = pc /\ i' = i + 1
                      /\ UNCHANGED <<errors, exited, faults>>
                   \/ ImageFetchFailed
    /\ UNCHANGED <<api, run, book_chapters, css, images, oebps, styles, manifest, epub,
                   parsed_html>>
    /\ UNCHANGED <<linkVars, tocVars, infoVars, opfVars, coverVars>>

\* toc = self.download_toc()
DownloadToc ==
    /\ pc = "download_toc"
    /\ \E ok \in BOOLEAN :
        IF ok
        THEN /\ fetched' = Append(fetched, Request("toc", <<>>, "ok"))
             /\ pc' = "create_epub"
             /\ Answer(FALSE)
             /\ UNCHANGED exited
        ELSE /\ fetched' = Append(fetched, Request("toc", <<>>, "none"))
             /\ Answer(TRUE)
             /\ Exit("toc")
    /\ UNCHANGED <<api, run, book_chapters, i, css, images, oebps, styles, imgfiles,
                   attempted, errors, manifest, epub, parsed_html>>
    /\ UNCHANGED <<linkVars, tocVars, infoVars, opfVars, coverVars>>

\* EPub.create_content_opf: one Style{NN}.css item for each NN below the
\* number of files listed in the Styles directory
CssItems(css_files) == [k \in 1..Cardinality(css_files) |-> k - 1]

\* html.escape(s)
RECURSIVE escape(_)
escape(s) ==
    IF s = <<>> THEN <<>>
    ELSE (CASE Head(s) = "&" -> <<"&", "a", "m", "p", ";">>
            [] Head(s) = "<" -> <<"&", "l", "t", ";">>
            [] Head(s) = ">" -> <<"&", "g", "t", ";">>
            [] Head(s) = "\"" -> <<"&", "q", "u", "o", "t", ";">>
            [] Head(s) = "'" -> <<"&", "#", "x", "2", "7", ";">>
            [] OTHER -> <<Head(s)>>) \o escape(Tail(s))

\* "".join(parts)
RECURSIVE Join(_)
Join(parts) == IF parts = <<>> THEN <<>> ELSE Head(parts) \o Join(Tail(parts))

\* item_id = escape("".join(chapter["filename"].split(".")[:-1]))
ItemId(filename) ==
    LET parts == Split(filename, Dot)
    IN  escape(Join(SubSeq(parts, 1, Len(parts) - 1)))

\* the <item id href> that create_content_opf appends to manifest for each
\* chapter of book_chapters
ChapterItems(chapters) ==
    [k \in DOMAIN chapters |->
        [id |-> ItemId(chapters[k].filename), href |-> chapters[k].filename]]

\* ItemRefs leaving out the chapter at the head of the list
ItemRefsOfDownloaded(chapters) ==
    [k \in 1..(Len(chapters) - 1) |-> ItemId(chapters[k + 1].filename)]

\* the <itemref idref> that create_content_opf appends to spine for each
\* chapter of book_chapters
ItemRefs(chapters) == [k \in DOMAIN chapters |-> ItemId(chapters[k].filename)]

\* the href of the guide: book_chapters[0]["filename"].replace(".html", ".xhtml")
GuideReference(chapters) == Replace(chapters[1].filename, StrDotHtml, StrDotXhtml)

\* self.epub.create_epub(...)
CreateEpub ==
    /\ pc = "create_epub"
    /\ book_chapters' = [k \in DOMAIN book_chapters |->
                            [book_chapters[k] EXCEPT !.filename = PageName(@)]]
    /\ chapter_items' = ChapterItems(book_chapters')
    /\ spine' = ItemRefs(book_chapters')
    /\ guide' = GuideReference(book_chapters')
    /\ manifest' = CssItems(DOMAIN styles)
    /\ epub' = TRUE
    /\ pc' = "done"
    /\ UNCHANGED <<api, run, i, css, images, oebps, styles, imgfiles,
                   fetched, attempted, errors, exited, faults, parsed_html>>
    /\ UNCHANGED <<linkVars, tocVars, infoVars, coverVars>>

\* the chapter lists the API may serve when the program is started again:
\* the same book, or the book with a new chapter added at its end
LaterBooks(book) ==
    {book} \cup (IF Len(book) < MaxChapters
                 THEN {Append(book, c) : c \in RunChapters \ Range(book)}
                 ELSE {})

\* the program is started again on the same book: a new Downloader with an
\* empty registry, the book directory as the earlier runs left it
StartRun ==
    /\ pc \in {"done", "exited"}
    /\ run < MaxRuns
    /\ run' = run + 1
    /\ api' \in {<<book>> : book \in LaterBooks(api[1])}
    /\ pc' = "get_book_info"
    /\ book_chapters' = <<>>
    /\ i' = 1
    /\ css' = <<>>
    /\ images' = <<>>
    /\ fetched' = <<>>
    /\ attempted' = <<>>
    /\ errors' = <<>>
    /\ exited' = ""
    /\ epub' = FALSE
    /\ parsed_html' = NoCall
    /\ UNCHANGED <<oebps, styles, imgfiles, manifest, faults>>
    /\ UNCHANGED <<linkVars, tocVars, infoVars, opfVars, coverVars>>

\* a function with an empty domain: an empty directory
EmptyDir == [x \in {} |-> <<>>]

Init ==
    /\ api \in {<<book>> : book \in RunBooks}
    /\ run = 1
    /\ pc = "get_book_info"
    /\ book_chapters = <<>>
    /\ i = 1
    /\ css = <<>>
    /\ images = <<>>
    /\ oebps = EmptyDir
    /\ styles = EmptyDir
    /\ imgfiles = EmptyDir
    /\ fetched = <<>>
    /\ attempted = <<>>
    /\ errors = <<>>
    /\ exited = ""
    /\ manifest = <<>>
    /\ chapter_items = <<>>
    /\ spine = <<>>
    /\ guide = <<>>
    /\ epub = FALSE
    /\ faults = 0
    /\ parsed_html = NoCall
    /\ InfoIdle
    /\ CoverIdle
    /\ link = <<>>
    /\ newLink = <<>>
    /\ lpc = "idle"
    /\ TocIdle

Next ==
    \/ GetBookInfo
    \/ GetBookChapters
    \/ DownloadChapter
    \/ CreateDefaultCover
    \/ ThreadDownloadCss
    \/ ThreadDownloadImages
    \/ DownloadToc
    \/ CreateEpub
    \/ StartRun

Spec == Init /\ [][Next]_vars

(***************************************************************************)
(* Downloader.get_book_chapters on its own, over every paging of the       *)
(* chapter list.                                                           *)
(***************************************************************************)

\* a chapter of which the listing reads only the file name and the title
Listed(filename, title) == Chapter(filename, title, <<>>, <<>>, <<>>, <<>>, <<>>, <<>>, 0)

\* cover by file name, cover by title, "Cover" with a capital (not a cover
\* for the program), and two plain chapters
ListedChapters ==
    { Listed(StrCover \o StrDotHtml, <<"T">>),
      Listed(<<"a">> \o StrDotHtml, <<"A", " ">> \o StrCover),
      Listed(<<"b">> \o StrDotHtml, <<"C", "o", "v", "e", "r">>),
      Listed(<<"c">> \o StrDotHtml, <<"C">>) }

ListingInit ==
    /\ api \in SeqsOf(SeqsOf(ListedChapters, 0, MaxPerPage), 1, MaxPages)
    /\ run = 1
    /\ pc = "get_book_chapters"
    /\ book_chapters = <<>>
    /\ i = 1
    /\ css = <<>>
    /\ images = <<>>
    /\ oebps = EmptyDir
    /\ styles = EmptyDir
    /\ imgfiles = EmptyDir
    /\ fetched = <<>>
    /\ attempted = <<>>
    /\ errors = <<>>
    /\ exited = ""
    /\ manifest = <<>>
    /\ chapter_items = <<>>
    /\ spine = <<>>
    /\ guide = <<>>
    /\ epub = FALSE
    /\ faults = 0
    /\ parsed_html = NoCall
    /\ InfoIdle
    /\ CoverIdle
    /\ link = <<>>
    /\ newLink = <<>>
    /\ lpc = "idle"
    /\ TocIdle

ListingNext == GetBookChapters

ListingSpec == ListingInit /\ [][ListingNext]_vars

(***************************************************************************)
(* OreillyParser.link_replace on its own, as rewrite_links applies it to   *)
(* every link of the content.                                              *)
(***************************************************************************)

\* a link is put together as prefix, directories, name, extension, tail
LinkPrefixes ==
    { <<>>,
      StrMailto \o <<":">>,
      StrMailto \o Slash,
      Slash,
      BookId \o Slash,
      Https \o <<"/", "/", "h", "/">>,
      Https \o <<"/", "/", "h", "/">> \o BookId \o Slash,
      <<"/", "/", "h", "/">> \o BookId \o Slash,
      <<"/", "/", "h", "/">>,
      Https \o <<"/", "/", "h", "/">> \o BookId \o <<"/", "/", "g", "/">> }

LinkDirs == { <<"a", "/">>, StrImages \o Slash, <<"d">> \o StrDotHtml \o Slash }

LinkNames == { <<>>, <<"c", "h">>, StrCover, <<"f", "i", "g">> }

LinkExtensions ==
    { <<>>, StrDotHtml, StrDotXhtml, <<".", "p", "n", "g">>, <<".", "J", "P", "G">>,
      <<".", "c", "s", "s">> }

LinkTails == { <<>>, <<"#", "s">>, Slash, <<"?", "v", "=">> \o BookId }

\* the concatenations of up to n directories
RECURSIVE DirPaths(_)
DirPaths(n) ==
    IF n = 0 THEN {<<>>}
    ELSE DirPaths(n - 1) \cup {d \o rest : d \in LinkDirs, rest \in DirPaths(n - 1)}

Links ==
    { p \o d \o n \o e \o t :
        p \in LinkPrefixes, d \in DirPaths(MaxDirs), n \in LinkNames,
        e \in LinkExtensions, t \in LinkTails }

LinkInit ==
    /\ link \in Links
    /\ newLink = <<>>
    /\ lpc = "call"
    /\ TocIdle
    /\ api = <<>>
    /\ run = 1
    /\ pc = "idle"
    /\ book_chapters = <<>>
    /\ i = 1
    /\ css = <<>>
    /\ images = <<>>
    /\ oebps = EmptyDir
    /\ styles = EmptyDir
    /\ imgfiles = EmptyDir
    /\ fetched = <<>>
    /\ attempted = <<>>
    /\ errors = <<>>
    /\ exited = ""
    /\ manifest = <<>>
    /\ chapter_items = <<>>
    /\ spine = <<>>
    /\ guide = <<>>
    /\ epub = FALSE
    /\ faults = 0
    /\ parsed_html = NoCall
    /\ InfoIdle
    /\ CoverIdle

\* book_content.rewrite_links(lambda link: self.link_replace(link, self.book_id))
LinkReplace ==
    /\ lpc = "call"
    /\ newLink' = link_replace(link, BookId)
    /\ lpc' = "return"
    /\ UNCHANGED link
    /\ UNCHANGED <<runVars, tocVars, infoVars, coverVars>>

LinkNext == LinkReplace

LinkSpec == LinkInit /\ [][LinkNext]_vars

(***************************************************************************)
(* The table of contents: Downloader.parse_toc alone.                      *)
(***************************************************************************)

\* one node of the answer of the TOC API; path numbers the node among its
\* siblings, below the numbers of its ancestors
TocNode(path, depth, children) ==
    [id |-> <<"n">> \o path, fragment |-> <<>>, label |-> <<"L">>,
     href |-> <<"d", "/", "c">> \o path \o StrDotHtml, depth |-> depth, children |-> children]

\* the decimal digit k as a character
DigitChar(k) == <<"0", "1", "2", "3", "4", "5", "6", "7", "8", "9">>[k + 1]

\* the lists of nodes with n nodes at all levels together, the first one
\* numbered start below path; the depth fields are any, whatever the nesting
RECURSIVE Forests(_, _, _)
Forests(n, path, start) ==
    IF n = 0 THEN {<<>>}
    ELSE { <<TocNode(Append(path, DigitChar(start)), d, kr[1])>> \o kr[2] :
             d \in 1..MaxTocDepth,
             kr \in UNION { Forests(k, Append(path, DigitChar(start)), 1)
                               \X Forests(n - 1 - k, path, start + 1) : k \in 0..(n - 1) } }

\* the answers of the TOC API
Tocs == UNION { Forests(n, <<>>, 1) : n \in 0..MaxTocNodes }

\* one <navPoint id playOrder><navLabel/><content src/> of navmap
NavPoint(id, playOrder, label, src) ==
    [tag |-> "navPoint", id |-> id, playOrder |-> playOrder, label |-> label, src |-> src]

\* one </navPoint> of navmap
NavPointEnd == [tag |-> "/navPoint", id |-> <<>>, playOrder |-> 0, label |-> <<>>, src |-> <<>>]

\* children += 1
CountNode(children) == children + 1

\* RunningDepth taking the depth of the node whatever the depth so far
RunningDepthOfNode(cc, depth) == cc.depth

\* if int(cc["depth"]) > depth: depth = int(cc["depth"])
RunningDepth(cc, depth) == IF cc.depth > depth THEN cc.depth ELSE depth

RECURSIVE parse_toc(_, _, _)

\* Descend keeping the count it had before the children
DescendForgetting(cc, children, depth) ==
    IF cc.children # <<>>
    THEN LET sub == parse_toc(cc.children, children, depth)
         IN  TableOfContents(sub.navmap, children, sub.depth)
    ELSE TableOfContents(<<>>, children, depth)

\* if cc["children"]: sr, children, depth = parse_toc(cc["children"], children, depth)
Descend(cc, children, depth) ==
    IF cc.children # <<>>
    THEN parse_toc(cc.children, children, depth)
    ELSE TableOfContents(<<>>, children, depth)

\* Downloader.parse_toc: the loop over lst, one node per step
parse_toc(lst, children, depth) ==
    IF lst = <<>> THEN TableOfContents(<<>>, children, depth)
    ELSE LET cc == Head(lst)
             counted == CountNode(children)
             deepest == RunningDepth(cc, depth)
             point == NavPoint(IF Len(cc.fragment) > 0 THEN cc.fragment ELSE cc.id,
                               counted, cc.label,
                               SplitLast(Replace(cc.href, StrDotHtml, StrDotXhtml), Slash))
             sub == Descend(cc, counted, deepest)
             rest == parse_toc(Tail(lst), sub.children, sub.depth)
         IN  TableOfContents(<<point>> \o sub.navmap \o <<NavPointEnd>> \o rest.navmap,
                             rest.children, rest.depth)

TocInit ==
    /\ toc \in Tocs
    /\ table = TableOfContents(<<>>, 0, 0)
    /\ tpc = "call"
    /\ link = <<>>
    /\ newLink = <<>>
    /\ lpc = "idle"
    /\ api = <<>>
    /\ run = 1
    /\ pc = "idle"
    /\ book_chapters = <<>>
    /\ i = 1
    /\ css = <<>>
    /\ images = <<>>
    /\ oebps = EmptyDir
    /\ styles = EmptyDir
    /\ imgfiles = EmptyDir
    /\ fetched = <<>>
    /\ attempted = <<>>
    /\ errors = <<>>
    /\ exited = ""
    /\ manifest = <<>>
    /\ chapter_items = <<>>
    /\ spine = <<>>
    /\ guide = <<>>
    /\ epub = FALSE
    /\ faults = 0
    /\ parsed_html = NoCall
    /\ InfoIdle
    /\ CoverIdle

\* navmap, children, depth = self.parse_toc(toc)
ParseToc ==
    /\ tpc = "call"
    /\ table' = parse_toc(toc, 0, 0)
    /\ tpc' = "return"
    /\ UNCHANGED toc
    /\ UNCHANGED <<runVars, linkVars, infoVars, coverVars>>

TocNext == ParseToc

TocSpec == TocInit /\ [][TocNext]_vars

(***************************************************************************)
(* The book info: Downloader.get_book_info alone.                          *)
(***************************************************************************)

\* the JSON null, None once parsed
None == [type |-> "NoneType", value |-> <<>>]

\* a JSON string
Str(value) == [type |-> "str", value |-> value]

\* the literal "n/a"
StrNA == <<"n", "/", "a">>

\* the keys and the values of the answers of the book API
InfoKeys == {"title", "cover", "isbn", "last_chapter_read"}
InfoValues == {None, Str(<<"x">>), Str(StrNA)}

\* the answers of the book API: none, JSON that is not an object, or an
\* object with some of the keys
JsonAnswers ==
    {[kind |-> "none", fields |-> EmptyDict], [kind |-> "list", fields |-> EmptyDict]}
        \cup {[kind |-> "dict", fields |-> d] :
                d \in UNION {[keys -> InfoValues] : keys \in SUBSET InfoKeys}}

\* NormalizeNone leaving the value as it is
KeepNone(value) == value

\* if value is None: book_info[key] = "n/a"
NormalizeNone(value) == IF value = None THEN Str(StrNA) ELSE value

\* if "last_chapter_read" in book_info: del book_info["last_chapter_read"]
DropReadState(d) == [key \in DOMAIN d \ {"last_chapter_read"} |-> d[key]]

\* Downloader.get_book_info; exit names the logger.exit that ended the call
get_book_info(response) ==
    IF response.kind = "none" THEN [exit |-> "book_info", book_info |-> EmptyDict]
    ELSE IF response.kind # "dict" \/ Cardinality(DOMAIN response.fields) = 1
    THEN [exit |-> "api_error", book_info |-> EmptyDict]
    ELSE LET kept == DropReadState(response.fields)
         IN  [exit |-> "", book_info |-> [key \in DOMAIN kept |-> NormalizeNone(kept[key])]]

InfoInit ==
    /\ response_json \in JsonAnswers
    /\ book_info = EmptyDict
    /\ ipc = "call"
    /\ TocIdle
    /\ CoverIdle
    /\ link = <<>>
    /\ newLink = <<>>
    /\ lpc = "idle"
    /\ api = <<>>
    /\ run = 1
    /\ pc = "get_book_info"
    /\ book_chapters = <<>>
    /\ i = 1
    /\ css = <<>>
    /\ images = <<>>
    /\ oebps = EmptyDir
    /\ styles = EmptyDir
    /\ imgfiles = EmptyDir
    /\ fetched = <<>>
    /\ attempted = <<>>
    /\ errors = <<>>
    /\ exited = ""
    /\ manifest = <<>>
    /\ chapter_items = <<>>
    /\ spine = <<>>
    /\ guide = <<>>
    /\ epub = FALSE
    /\ faults = 0
    /\ parsed_html = NoCall

\* book_info = self.get_book_info(), with the answer of the API looked into
GetBookInfoAnswer ==
    /\ ipc = "call"
    /\ LET returned == get_book_info(response_json)
       IN  IF returned.exit # ""
           THEN /\ Exit(returned.exit)
                /\ ipc' = "exited"
                /\ UNCHANGED book_info
           ELSE /\ book_info' = returned.book_info
                /\ ipc' = "return"
                /\ UNCHANGED <<pc, exited>>
    /\ UNCHANGED <<api, run, book_chapters, i, css, images, oebps, styles, imgfiles,
                   fetched, attempted, errors, manifest, epub, faults, parsed_html>>
    /\ UNCHANGED <<response_json, linkVars, tocVars, opfVars, coverVars>>

InfoNext == GetBookInfoAnswer

InfoSpec == InfoInit /\ [][InfoNext]_vars

(***************************************************************************)
(* The cover detection: OreillyParser.get_cover alone.  The tree is kept   *)
(* as its <img> elements in document order, each with its attributes and   *)
(* the elements it is nested in, the outermost first.  The three XPath     *)
(* expressions are conditions joined by "or" (two of the string literals   *)
(* join "or" to "contains" without a blank, which libxml2 reads as "or").   *)
(***************************************************************************)

\* an element of the tree
Element(tag, attrs) == [tag |-> tag, attrs |-> attrs]

\* the attributes of an element that has the one attribute name
Only(name, value) == [n \in {name} |-> value]

\* attributes with "cover" in some letter case, one for each attribute name
CoverAttrs ==
    { Only("id", <<"C", "o", "v", "e", "r">>),
      Only("class", <<"b", " ", "C", "O", "V", "E", "R">>),
      Only("name", <<"c", "o", "v", "e", "r">>),
      Only("src", <<"c", "o", "V", "e", "r", ".", "j">>),
      Only("alt", <<"a", "c", "o", "v", "e", "R">>) }

\* attributes without "cover"
PlainAttrs == { Only("src", <<"c", "o", "v", ".", "j">>) }

\* what an <img> can be nested in
Ancestors ==
    {<<>>}
        \cup {<<Element(tag, attrs)>> :
                 tag \in {"div", "a", "span"}, attrs \in CoverAttrs \cup PlainAttrs}
        \cup { <<Element("a", Only("id", StrCover)), Element("div", Only("id", <<"x">>))>>,
               <<Element("div", Only("id", <<"x">>)), Element("a", Only("class", StrCover))>> }

\* an <img> in its place
Img(attrs, ancestors) == [attrs |-> attrs, ancestors |-> ancestors]

\* the <img> elements the trees are built of
Imgs ==
    {Img(attrs, ancestors) : attrs \in PlainAttrs, ancestors \in Ancestors}
        \cup {Img(attrs, ancestors) :
                 attrs \in CoverAttrs,
                 ancestors \in {<<>>, <<Element("div", Only("id", StrCover))>>}}

\* the trees
Documents == UNION {[1..n -> Imgs] : n \in 0..MaxImgs}

\* @name: the node-set of the attribute, as lxml hands it to a function
Attribute(element, name) ==
    IF name \in DOMAIN element.attrs THEN <<element.attrs[name]>> ELSE <<>>

\* lowercase_ns["lower-case"] = lambda _, n: n[0].lower() if n else ""
lower_case(n) == IF n # <<>> THEN Lower(n[1]) ELSE <<>>

\* contains(lower-case(@a), 'cover') or ..., for the attributes names
ContainsCover(element, names) ==
    \E name \in names : Contains(lower_case(Attribute(element, name)), StrCover)

\* //img[contains(lower-case(@id), 'cover') or ... or contains(lower-case(@alt), 'cover')]
XPathImages(tree) ==
    {k \in DOMAIN tree : ContainsCover(tree[k], {"id", "class", "name", "src", "alt"})}

\* //tag[contains(lower-case(@id), 'cover') or ... or contains(lower-case(@src), 'cover')]//img
XPathNested(tree, tag) ==
    {k \in DOMAIN tree :
        \E a \in DOMAIN tree[k].ancestors :
            /\ tree[k].ancestors[a].tag = tag
            /\ ContainsCover(tree[k].ancestors[a], {"id", "class", "name", "src"})}

\* nodes[0] of a result of xpath, which is in document order
FirstNode(nodes) == CHOOSE k \in nodes : \A m \in nodes : k <= m

\* return None
NoElement == 0

\* get_cover returning the first <img> that any of the three expressions finds
get_cover_merged(html_root) ==
    LET nodes == XPathImages(html_root) \cup XPathNested(html_root, "div")
                     \cup XPathNested(html_root, "a")
    IN  IF nodes # {} THEN FirstNode(nodes) ELSE NoElement

\* OreillyParser.get_cover: the place of the <img> returned, or NoElement
get_cover(html_root) ==
    LET imgs == XPathImages(html_root)
        divs == XPathNested(html_root, "div")
        a == XPathNested(html_root, "a")
    IN  IF imgs # {} THEN FirstNode(imgs)
        ELSE IF divs # {} THEN FirstNode(divs)
        ELSE IF a # {} THEN FirstNode(a)
        ELSE NoElement

CoverInit ==
    /\ document \in Documents
    /\ found = 0
    /\ cpc = "call"
    /\ InfoIdle
    /\ TocIdle
    /\ link = <<>>
    /\ newLink = <<>>
    /\ lpc = "idle"
    /\ api = <<>>
    /\ run = 1
    /\ pc = "get_book_info"
    /\ book_chapters = <<>>
    /\ i = 1
    /\ css = <<>>
    /\ images = <<>>
    /\ oebps = EmptyDir
    /\ styles = EmptyDir
    /\ imgfiles = EmptyDir
    /\ fetched = <<>>
    /\ attempted = <<>>
    /\ errors = <<>>
    /\ exited = ""
    /\ manifest = <<>>
    /\ chapter_items = <<>>
    /\ spine = <<>>
    /\ guide = <<>>
    /\ epub = FALSE
    /\ faults = 0
    /\ parsed_html = NoCall

\* cover = self.get_cover(book_content)
GetCover ==
    /\ cpc = "call"
    /\ found' = get_cover(document)
    /\ cpc' = "return"
    /\ UNCHANGED <<document, runVars, linkVars, tocVars, infoVars>>

CoverNext == GetCover

CoverSpec == CoverInit /\ [][CoverNext]_vars

(***************************************************************************)
(* Properties.                                                             *)
(***************************************************************************)

\* the pages of the listing, one after the other
RECURSIVE Flatten(_)
Flatten(pages) == IF pages = <<>> THEN <<>> ELSE Head(pages) \o Flatten(Tail(pages))

\* a is an initial part of b
IsPrefix(a, b) == Len(a) <= Len(b) /\ SubSeq(b, 1, Len(a)) = a

\* the Style links of the page written to file
StyleLinks(file) ==
    {oebps[file].page_css[k] : k \in {n \in DOMAIN oebps[file].page_css :
                                        oebps[file].page_css[n].kind = "link"}}

\* C1: the chapter list get_book_chapters returns is the stable partition of
\* the whole listing, all pages together: every cover-flagged chapter before
\* every other chapter, each group in its original order.
C1_CoversBeforeAllOthers ==
    pc = "download_chapters" =>
        book_chapters = SelectSeq(Flatten(api), IsCoverChapter)
                        \o SelectSeq(Flatten(api), IsNotCoverChapter)

\* C2: within a run the registry only grows at its end: the registry before
\* a step is an initial part of the registry after it, every registered URL
\* keeps its index, and each Style link of a page written in the step
\* carries the index its URL has in the registry.
C2_RegistryAppendOnly ==
    [][run' = run =>
          /\ IsPrefix(css, css')
          /\ \A u \in Range(css) : Index(css', u) = Index(css, u)
          /\ \A f \in DOMAIN oebps' \ DOMAIN oebps :
                \A l \in {oebps'[f].page_css[k] : k \in DOMAIN oebps'[f].page_css} :
                    l.kind = "link" => css'[l.style + 1] = l.url]_vars

\* C2 witness: two pages of one run link the same URL under the same number
\* while the registry holds a second URL.
C2_Witness ==
    /\ run = 1
    /\ Len(css) >= 2
    /\ \E f, g \in DOMAIN oebps : f # g /\ StyleLinks(f) \cap StyleLinks(g) # {}

\* C3: the registry never holds a URL twice.
C3_RegistryUnique == \A a, b \in DOMAIN css : css[a] = css[b] => a = b

\* C3 witness: a page links one URL twice, the registry holds it once.
C3_Witness ==
    \E f \in DOMAIN oebps :
        \E a, b \in DOMAIN oebps[f].page_css :
            /\ a # b
            /\ oebps[f].page_css[a].kind = "link"
            /\ oebps[f].page_css[a] = oebps[f].page_css[b]
            /\ Cardinality({k \in DOMAIN css : css[k] = oebps[f].page_css[a].url}) = 1

\* C4: a StyleNN.css on disk holds the stylesheet of the URL for which a
\* page on disk links Styles/StyleNN.css.
C4_StyleLinksMatchDisk ==
    \A f \in DOMAIN oebps :
        \A l \in StyleLinks(f) : l.style \in DOMAIN styles => styles[l.style] = l.url

Requested(kind) == {fetched[k].url : k \in {n \in DOMAIN fetched : fetched[n].kind = kind}}

RequiredKinds == {"book_info", "chapters", "chapter", "toc"}

\* C6: a request for the book info, the chapter list, a chapter or the TOC
\* that fails, or that brings a fragment that cannot be used, is the last
\* request of its run: the run has ended and create_epub has not run.
C6_FatalEndsRun ==
    \A k \in DOMAIN fetched :
        (fetched[k].kind \in RequiredKinds /\ fetched[k].result # "ok")
            => (k = Len(fetched) /\ pc = "exited" /\ exited # "" /\ ~epub)

\* C6 witness: a run ended on a chapter without its content container after
\* an earlier chapter had been written.
C6_Witness ==
    /\ pc = "exited"
    /\ exited = "no_content"
    /\ Len(fetched) >= 4
    /\ fetched[Len(fetched)].result = "no_content"

\* the failed requests of this run for a stylesheet or an image
AssetErrors == {k \in DOMAIN errors : errors[k].kind \in {"css", "image"}}

\* C7: after a failed request for a stylesheet or an image the run is ended
\* by nothing but the TOC request; once the asset loops are over every
\* stylesheet and then every image has been attempted, in order; a run that
\* is past the TOC has requested it, and a finished run has run create_epub.
C7_AssetFailureRecoverable ==
    AssetErrors # {} =>
        /\ exited \in {"", "toc"}
        /\ pc \in {"download_toc", "create_epub", "done", "exited"}
              => attempted = css \o images
        /\ pc \in {"create_epub", "done", "exited"}
              => fetched[Len(fetched)].kind = "toc"
        /\ pc = "done" => epub

\* C7 witness: a run has finished with an EPUB although a stylesheet and an
\* image, neither of them the last of its list, could not be fetched.
C7_Witness ==
    /\ pc = "done"
    /\ epub
    /\ \E k \in AssetErrors : errors[k].kind = "css" /\ errors[k].url # css[Len(css)]
    /\ \E k \in AssetErrors : errors[k].kind = "image" /\ errors[k].url # images[Len(images)]

\* C8: when the run is done the manifest has one StyleNN.css item for each
\* Style file on disk and no other.
C8_ManifestListsStyleFiles ==
    pc = "done" =>
        /\ Len(manifest) = Cardinality(DOMAIN styles)
        /\ Range(manifest) = DOMAIN styles

\* the link contains "cover", "images" or "graphics", or the suffix of its
\* name is jpg, jpeg, png or gif in any letter case
LooksLikeImage(l) ==
    \/ Contains(l, StrCover)
    \/ Contains(l, StrImages)
    \/ Contains(l, StrGraphics)
    \/ Lower(Drop(PathSuffix(l), 1)) \in ImageExtensions

C10_HtmlSuffixOnly ==
    (lpc = "return" /\ Netloc(link) = <<>> /\ ~LooksLikeImage(link))
        => newLink = ReplaceSuffix(link, StrDotHtml, StrDotXhtml)

\* C10, amended: a link without a network host that does not look like an
\* image and does not start with "mailto" is returned with every ".html" in
\* it, not only a final one, rewritten to ".xhtml"; a link with no ".html"
\* in it, as one that ends in ".xhtml" or has no extension, is returned as
\* it is.
C10_EveryHtmlRewritten ==
    (lpc = "return" /\ Netloc(link) = <<>> /\ ~LooksLikeImage(link)
        /\ ~StartsWith(link, StrMailto))
        => /\ newLink = Replace(link, StrDotHtml, StrDotXhtml)
           /\ ~Contains(newLink, StrDotHtml)
           /\ Len(newLink) = Len(link) + Cardinality(Occurrences(link, StrDotHtml))
           /\ ~Contains(link, StrDotHtml) => newLink = link

\* C10 witness: a link with ".html" before a fragment identifier has been
\* rewritten.
C10_Witness ==
    /\ lpc = "return"
    /\ Netloc(link) = <<>>
    /\ ~LooksLikeImage(link)
    /\ ~StartsWith(link, StrMailto)
    /\ EndsWith(link, StrDotHtml \o <<"#", "s">>)
    /\ newLink # link
    /\ EndsWith(newLink, StrDotXhtml \o <<"#", "s">>)

\* rules 1 to 3 of the link rewriter applied to s: an empty or mailto link
\* as it is, an image link under Images/, every other link with ".html"
\* rewritten
RelativeRules(s) ==
    IF s = <<>> \/ StartsWith(s, StrMailto) THEN s
    ELSE IF LooksLikeImage(s) THEN StrImagesDir \o SplitLast(s, Slash)
    ELSE Replace(s, StrDotHtml, StrDotXhtml)

\* C11, as claimed: for every link with a network host that contains the
\* book id, link_replace returns rules 1 to 3 applied to what follows the
\* (last) book id in the link, and the result has no network host.
C11_AbsoluteWithBookId ==
    (lpc = "return" /\ Netloc(link) # <<>> /\ Contains(link, BookId))
        => /\ newLink = RelativeRules(SplitLast(link, BookId))
           /\ Netloc(newLink) = <<>>

\* C12: an empty link, a link that starts with "mailto:" and a link with a
\* network host that does not contain the book id are returned as they are.
C12_PassThrough ==
    (/\ lpc = "return"
     /\ \/ link = <<>>
        \/ StartsWith(link, StrMailto \o <<":">>)
        \/ Netloc(link) # <<>> /\ ~Contains(link, BookId))
        => newLink = link

\* C12 witness: a link with a network host and without the book id, which
\* rule 3 would rewrite, has been returned as it is.
C12_Witness ==
    /\ lpc = "return"
    /\ Netloc(link) # <<>>
    /\ ~Contains(link, BookId)
    /\ Contains(link, StrDotHtml)
    /\ ~LooksLikeImage(link)
    /\ newLink = link

\* the nodes of a list of nodes in pre-order: a node, then its children,
\* then the node's next sibling
RECURSIVE PreOrder(_)
PreOrder(lst) ==
    IF lst = <<>> THEN <<>>
    ELSE <<Head(lst)>> \o PreOrder(Head(lst).children) \o PreOrder(Tail(lst))

\* the <navPoint> elements of navmap in document order
NavPoints(navmap) == SelectSeq(navmap, LAMBDA t : t.tag = "navPoint")

\* C13: parse_toc called with the default counters gives the k-th node in
\* pre-order the playOrder k, so that the N nodes of the tree have the
\* playOrders 1..N without gap or repeat, and returns N as the child count.
C13_PlayOrderPreOrder ==
    tpc = "return" =>
        LET nodes == PreOrder(toc)
            points == NavPoints(table.navmap)
        IN  /\ Len(points) = Len(nodes)
            /\ \A k \in DOMAIN points :
                    points[k].playOrder = k /\ points[k].id = nodes[k].id
            /\ table.children = Len(nodes)

\* C13 witness: a node with one child and a next sibling has been parsed,
\* the sibling got playOrder 3.
C13_Witness ==
    /\ tpc = "return"
    /\ Len(toc) = 2
    /\ Len(toc[1].children) = 1
    /\ toc[1].children[1].children = <<>>
    /\ NavPoints(table.navmap)[3].id = toc[2].id
    /\ NavPoints(table.navmap)[3].playOrder = 3
    /\ table.children = 3

\* C14: the depth parse_toc returns for a tree with nodes is the largest
\* depth field of all its nodes, at every level.
C14_MaxDepth ==
    (tpc = "return" /\ toc # <<>>) =>
        LET depths == {n.depth : n \in Range(PreOrder(toc))}
        IN  /\ table.depth \in depths
            /\ \A d \in depths : d <= table.depth

\* C14 witness: the deepest node is a child of the first node and is
\* followed by a less deep sibling of that node, and its depth is returned.
C14_Witness ==
    /\ tpc = "return"
    /\ Len(toc) = 2
    /\ toc[1].depth = 1
    /\ Len(toc[1].children) = 1
    /\ toc[1].children[1].depth = 2
    /\ toc[2].depth = 1
    /\ table.depth = 2

\* C15: the last call of parse_html returned a cover_url only if it was
\* passed is_first_page and the fragment had a cover element; a call that
\* was not passed is_first_page returned no cover_url, the content and not
\* the cover layout, and a page_css without the style of the cover layout.
C15_CoverOnlyOnFirstPage ==
    /\ parsed_html.result.cover_url # <<>> => (parsed_html.is_first_page /\ parsed_html.cover)
    /\ (parsed_html # NoCall /\ ~parsed_html.is_first_page) =>
            /\ parsed_html.result.cover_url = <<>>
            /\ parsed_html.result.xhtml.id # "Cover"
            /\ \A k \in DOMAIN parsed_html.result.page_css :
                    parsed_html.result.page_css[k].kind # "cover"

\* C15 witness: a fragment with a cover element was transformed for a page
\* that is not the first one, and its content was kept.
C15_Witness ==
    /\ ~parsed_html.is_first_page
    /\ parsed_html.cover
    /\ parsed_html.result.exit = ""
    /\ parsed_html.result.xhtml = Content
    /\ parsed_html.result.cover_url = <<>>

\* the requests for chapter fragments among the requests reqs
ChapterRequests(reqs) == {k \in DOMAIN reqs : reqs[k].kind = "chapter"}

\* the last call of parse_html was made by download_chapters, for the
\* fragment the last request of the run answered
ChapterCall ==
    /\ parsed_html # NoCall
    /\ parsed_html.filename # DefaultCoverChapter.filename
    /\ fetched[Len(fetched)].kind = "chapter"
    /\ fetched[Len(fetched)].result \in {"ok", "api_error", "no_content", "parse_error"}

\* the first request for a chapter fragment of the run
FirstChapterRequest ==
    fetched[CHOOSE k \in ChapterRequests(fetched) : \A m \in ChapterRequests(fetched) : k <= m]

\* C16, as claimed: download_chapters passes is_first_page exactly for the
\* first chapter it writes in the run, also in a run that skips leading
\* chapters whose files exist.
C16_FirstWrittenIsFirstPage ==
    (ChapterCall /\ parsed_html.result.exit = "") =>
        (parsed_html.is_first_page <=> Cardinality(ChapterRequests(fetched)) = 1)

\* C16, amended: download_chapters passes is_first_page exactly for the
\* chapter at the head of the chapter list; a run that skips that chapter
\* because its file exists passes it for no chapter it writes.
C16_FirstListedIsFirstPage ==
    ChapterCall =>
        /\ parsed_html.is_first_page <=> parsed_html.filename = book_chapters[1].filename
        /\ (FirstChapterRequest.url # book_chapters[1].content) => ~parsed_html.is_first_page

\* C16 witness: a run that skipped the first chapter has written its first
\* page, and is_first_page was not passed for it.
C16_Witness ==
    /\ ChapterCall
    /\ run > 1
    /\ Cardinality(ChapterRequests(fetched)) = 1
    /\ parsed_html.filename # book_chapters[1].filename
    /\ PageName(book_chapters[1].filename) \in DOMAIN oebps
    /\ parsed_html.result.exit = ""
    /\ PageName(parsed_html.filename) \in DOMAIN oebps
    /\ ~parsed_html.is_first_page

\* C19, as claimed: a fragment with the marker element in it always ends
\* the run.
C19_MarkerAlwaysFatal ==
    parsed_html.marker => (parsed_html.result.exit # "" /\ pc = "exited")

\* C20, as claimed: no image URL occurs twice in self.images.
C20_ImagesUnique == \A a, b \in DOMAIN images : images[a] = images[b] => a = b

\* C17: when create_epub has run, the spine has one itemref for each chapter
\* of the final chapter list, in the order of the list, and the idref of
\* each is the id of the manifest item of that chapter.
C17_SpineFollowsChapters ==
    epub =>
        /\ Len(spine) = Len(book_chapters)
        /\ Len(chapter_items) = Len(book_chapters)
        /\ \A k \in DOMAIN book_chapters :
                /\ chapter_items[k].href = PageName(book_chapters[k].filename)
                /\ spine[k] = chapter_items[k].id

\* C17 witness: a book of two chapters has been packaged, the default cover
\* first in the spine.
C17_Witness ==
    /\ epub
    /\ Len(book_chapters) = 3
    /\ Len(spine) = 3
    /\ spine[1] = StrDefaultCover
    /\ spine[2] # spine[3]

\* C18: the mapping get_book_info returns has no key last_chapter_read and
\* no None value: it has every other key of the answer, with "n/a" where
\* the answer had null and with the value of the answer elsewhere.
C18_BookInfoNormalized ==
    ipc = "return" =>
        /\ "last_chapter_read" \notin DOMAIN book_info
        /\ \A key \in DOMAIN book_info : book_info[key] # None
        /\ DOMAIN book_info = DOMAIN response_json.fields \ {"last_chapter_read"}
        /\ \A key \in DOMAIN book_info :
                book_info[key] = IF response_json.fields[key].type = "NoneType"
                                 THEN Str(StrNA)
                                 ELSE response_json.fields[key]

\* C18 witness: an answer with last_chapter_read, a null field and a field
\* with a value has been normalized.
C18_Witness ==
    /\ ipc = "return"
    /\ DOMAIN response_json.fields = {"title", "cover", "last_chapter_read"}
    /\ response_json.fields["title"] = None
    /\ response_json.fields["cover"] = Str(<<"x">>)
    /\ book_info["title"] = Str(StrNA)
    /\ book_info["cover"] = Str(<<"x">>)

\* collect_images has gone through self.images in this run
ImagesCollected == pc \in {"download_toc", "create_epub", "done"}

\* the pairs of places of self.images with two URLs of one basename, the
\* second the last URL of that basename in the list
Collisions ==
    {ab \in (DOMAIN images) \X (DOMAIN images) :
        /\ ab[1] < ab[2]
        /\ images[ab[1]] # images[ab[2]]
        /\ SplitLast(images[ab[1]], Slash) = SplitLast(images[ab[2]], Slash)
        /\ \A m \in DOMAIN images :
               SplitLast(images[m], Slash) = SplitLast(images[ab[2]], Slash) => m <= ab[2]}

\* the requests of the run for images that were answered
ImagesFetched == {k \in DOMAIN fetched : fetched[k].kind = "image" /\ fetched[k].result = "ok"}

\* C21, as claimed: after collect_images the file of two URLs with the same
\* basename holds the content of the later URL.
C21_LaterImageOverwrites ==
    ImagesCollected =>
        \A ab \in Collisions :
            SplitLast(images[ab[2]], Slash) \in DOMAIN imgfiles
                => imgfiles[SplitLast(images[ab[2]], Slash)] = images[ab[2]]

\* C21, amended: URLs with the same basename share the file
\* Images/<basename>, and the file is written once: what a request of the
\* run put there is still there afterwards, and the run fetches no second
\* URL of that basename, so a later-listed URL never overwrites the file.
C21_FirstImageStays ==
    /\ \A k \in ImagesFetched :
           /\ SplitLast(fetched[k].url, Slash) \in DOMAIN imgfiles
           /\ imgfiles[SplitLast(fetched[k].url, Slash)] = fetched[k].url
    /\ \A k, m \in ImagesFetched :
           SplitLast(fetched[k].url, Slash) = SplitLast(fetched[m].url, Slash) => k = m

\* C21 witness: two URLs of one basename from different directories were
\* both attempted, the first was fetched and its content is in the file.
C21_Witness ==
    /\ ImagesCollected
    /\ \E ab \in Collisions :
           /\ \E k \in ImagesFetched : fetched[k].url = images[ab[1]]
           /\ \A k \in DOMAIN fetched : fetched[k].url # images[ab[2]]
           /\ imgfiles[SplitLast(images[ab[1]], Slash)] = images[ab[1]]
           /\ images[ab[2]] \in Range(attempted)

\* value has "cover" in it, in any letter case
MentionsCover(value) ==
    \E k \in 1..Len(value) - 4 :
        /\ value[k] \in {"c", "C"}
        /\ value[k + 1] \in {"o", "O"}
        /\ value[k + 2] \in {"v", "V"}
        /\ value[k + 3] \in {"e", "E"}
        /\ value[k + 4] \in {"r", "R"}

\* the <img> at place k has "cover" in id, class, name, src or alt
DirectCover(k) ==
    \E name \in DOMAIN document[k].attrs \cap {"id", "class", "name", "src", "alt"} :
        MentionsCover(document[k].attrs[name])

\* the <img> at place k is inside a <tag> with "cover" in id, class, name or src
NestedCover(k, tag) ==
    \E a \in DOMAIN document[k].ancestors :
        /\ document[k].ancestors[a].tag = tag
        /\ \E name \in DOMAIN document[k].ancestors[a].attrs \cap {"id", "class", "name", "src"} :
               MentionsCover(document[k].ancestors[a].attrs[name])

\* the <img> at place k satisfies test and none before it does
IsFirst(k, test(_)) == k \in DOMAIN document /\ test(k) /\ \A m \in 1..k - 1 : ~test(m)

InDiv(k) == NestedCover(k, "div")
InA(k) == NestedCover(k, "a")

\* C22: get_cover applies its three tiers as a fixed priority: the first
\* <img> with "cover" in its own attributes if there is one, whatever is
\* nested earlier; else the first <img> nested in a cover <div>; else the
\* first <img> nested in a cover <a>; else None.
C22_TierPriority ==
    cpc = "return" =>
        IF \E k \in DOMAIN document : DirectCover(k) THEN IsFirst(found, DirectCover)
        ELSE IF \E k \in DOMAIN document : InDiv(k) THEN IsFirst(found, InDiv)
        ELSE IF \E k \in DOMAIN document : InA(k) THEN IsFirst(found, InA)
        ELSE found = NoElement

\* C22 witness: an <img> nested in a cover <div> comes first, an <img>
\* with "cover" in its alt second, and the second was returned.
C22_Witness ==
    /\ cpc = "return"
    /\ Len(document) = 2
    /\ InDiv(1) /\ ~DirectCover(1)
    /\ DOMAIN document[2].attrs = {"alt"} /\ DirectCover(2)
    /\ found = 2

\* the place of a kind of request in the order of Downloader.download
PhaseOf(kind) ==
    CASE kind = "book_info" -> 1
      [] kind = "chapters" -> 2
      [] kind = "chapter" -> 3
      [] kind = "cover" -> 4
      [] kind = "css" -> 5
      [] kind = "image" -> 6
      [] kind = "toc" -> 7

\* the place in book_chapters of the chapter whose fragment is at url
PlaceOf(url) == CHOOSE p \in DOMAIN book_chapters : book_chapters[p].content = url

CalledChapter ==
    CHOOSE c \in RunChapters \cup {DefaultCoverChapter} : c.filename = parsed_html.filename

\* the last call of parse_html returned and put no cover layout in the page
ReturnedWithoutCover ==
    /\ parsed_html # NoCall
    /\ parsed_html.result.exit = ""
    /\ ~(parsed_html.is_first_page /\ parsed_html.cover)

\* the stylesheet URLs of a chapter in the order parse_html meets them: the
\* declared ones, then those of the <link rel="stylesheet"> of the fragment
DiscoveredStylesheets(c) ==
    c.stylesheets \o c.site_styles
        \o [k \in DOMAIN c.links |->
               IF SubSeq(c.links[k], 1, 2) = <<"/", "/">> THEN Https \o c.links[k]
               ELSE BaseUrl \o c.links[k]]

\* the number NN of Style{NN}.css for url: its first place in the registry
StyleNumber(registry, url) ==
    Cardinality({k \in DOMAIN registry : \A m \in 1..k : registry[m] # url})

\* C24: on a page without cover replacement page_css is, in this order, one
\* Style link for each declared stylesheet (a repeated URL gives a repeated
\* link with the same number), one for each <link rel="stylesheet"> of the
\* fragment, then each <style> element; it is empty when there are none.
C24_PageCssInDiscoveryOrder ==
    ReturnedWithoutCover =>
        LET urls == DiscoveredStylesheets(CalledChapter)
            page_css == parsed_html.result.page_css
        IN  /\ Len(page_css) = Len(urls) + CalledChapter.inline
            /\ \A k \in DOMAIN urls :
                   /\ page_css[k].kind = "link"
                   /\ page_css[k].url = urls[k]
                   /\ page_css[k].style = StyleNumber(parsed_html.result.css_list, urls[k])
            /\ \A k \in Len(urls) + 1..Len(page_css) : page_css[k].kind = "style"
            /\ (urls = <<>> /\ CalledChapter.inline = 0) => page_css = <<>>

\* C24 witness: the page of c2.html, written after c1.html, has the link of
\* its declared stylesheet, the link of the <link> of its fragment, which
\* c1.html registered first, and its <style>.
C24_Witness ==
    /\ ReturnedWithoutCover
    /\ CalledChapter = ChapterTwo
    /\ parsed_html.result.css_list = <<U1, U2>>
    /\ Len(parsed_html.result.page_css) = 3
    /\ parsed_html.result.page_css[1].style = 1
    /\ parsed_html.result.page_css[2].style = 0
    /\ parsed_html.result.page_css[3] = InlineStyle

\* the repeated URL of C24: cover.html, whose stylesheet is declared twice,
\* was written as a later page with two links of one number.
C24_WitnessRepeated ==
    /\ ReturnedWithoutCover
    /\ CalledChapter = ChapterCover
    /\ parsed_html.result.page_css[1] = parsed_html.result.page_css[2]
    /\ Len(parsed_html.result.page_css) = 3

\* book ids link_replace is looked at for: the one of the book, and two
\* that occur more often in the links
BookIds == {BookId, <<"4">>, <<"2">>}

\* a string: a finite sequence of characters
IsString(s) == DOMAIN s = 1..Len(s) /\ \A k \in DOMAIN s : s[k] \in STRING

\* C25: link_replace is total: for every link and non-empty book id it
\* returns a string after at most one call of itself, because what follows
\* the last occurrence of the book id does not contain the book id.
C25_AtMostOneRecursion ==
    lpc = "return" =>
        /\ IsString(newLink)
        /\ \A book_id \in BookIds :
               /\ IsString(link_replace(link, book_id))
               /\ Recursions(link, book_id) <= 1
               /\ ~Contains(SplitLast(link, book_id), book_id)

\* C25 witness: link_replace has returned for an absolute link with the
\* book id in it twice, having called itself once.
C25_Witness ==
    /\ lpc = "return"
    /\ url_is_absolute(link)
    /\ Cardinality(Occurrences(link, BookId)) = 2
    /\ Recursions(link, BookId) = 1
    /\ newLink = link_replace(SplitLast(link, BookId), BookId)

\* default_cover.xhtml
DefaultCoverPage == <<"d", "e", "f", "a", "u", "l", "t", "_", "c", "o", "v", "e", "r",
                      ".", "x", "h", "t", "m", "l">>

\* the run has gone past the chapters and their successor
PastChapters ==
    \/ pc \in {"collect_css", "collect_images", "download_toc", "create_epub", "done"}
    \/ attempted # <<>>
    \/ Requested("toc") # {}

\* C26: download_chapters returns no cover, also when a cover was found on
\* the first page, so every run that gets past the chapters has the chapter
\* default_cover.xhtml in front of its chapter list and its page on disk,
\* and in content.opf the cover reference of the guide and the first item
\* of the spine are default_cover.xhtml, not the first chapter of the book.
C26_DefaultCoverAlways ==
    /\ PastChapters =>
           /\ book_chapters # <<>>
           /\ book_chapters[1].filename = DefaultCoverPage
           /\ \A k \in 2..Len(book_chapters) : book_chapters[k].filename # DefaultCoverPage
           /\ DefaultCoverPage \in DOMAIN oebps
    /\ epub =>
           /\ guide = DefaultCoverPage
           /\ chapter_items[1].href = DefaultCoverPage
           /\ spine[1] = chapter_items[1].id
           /\ spine[1] = SubSeq(DefaultCoverPage, 1, 13)

\* C26 witness: in the first run the first chapter was written with the
\* cover layout, the cover the transformer found, and content.opf has
\* default_cover.xhtml in the guide and at the head of the spine.
C26_Witness ==
    /\ run = 1
    /\ epub
    /\ Len(book_chapters) = 3
    /\ oebps[book_chapters[2].filename].xhtml.id = "Cover"
    /\ guide = DefaultCoverPage
    /\ Len(spine) = 3

====
